---- MODULE Spec2Model ----
(***************************************************************************)
(* Spotify charts scraper and database loader.                             *)
(*                                                                         *)
(* The repository holds six scraper scripts that share one shape (fetch a  *)
(* CSV through the browser, parse it, write a JSON snapshot file) and one  *)
(* loader script that inserts the rows of the snapshot files into SQL      *)
(* Server and deletes the files.  The scripts are modelled as the values   *)
(* of the variable "variant"; each behaviour runs one script, any number   *)
(* of times, interleaved with runs of the loader.                          *)
(*                                                                         *)
(*   "ByDate"    src/spotifyScraperByDate.js, lines 1-365  (several dates) *)
(*   "ByDateOne" src/spotifyScraperByDate.js, lines 367-668 (one date)     *)
(*   "Latest"    src/spotifyScraper.js                                     *)
(*   "Single"    src/spotifyScraperSingle.js                               *)
(*   "Part000"   src/unnamed/part_000                                      *)
(*   "Part001"   src/unnamed/part_001                                      *)
(*                                                                         *)
(* Dates are day numbers (1 is 2026-01-01, 2 is 2026-01-02, ...); the      *)
(* dates and countries configured in the scripts are brought into the      *)
(* modelled window of dates and the two modelled countries.  The system    *)
(* clock is read once per run of a script.                                 *)
(***************************************************************************)
EXTENDS Integers, Sequences, FiniteSets, TLC

\* ------------------------------------------------------------------ bounds
MaxDate == 2
MaxRows == 2
MaxScraperRuns == 2
MaxLoaderRuns == 2
\* How many times, in one behaviour, the environment leaves a CSV behind in
\* data/temp (a download that completes too late, an unlink that fails).
MaxStrays == 1
\* The longest text, in symbols, that follows the header line of a payload.
MaxText == 5

\* --------------------------------------------------------- program values
Null == 0
LATEST == -1
DefaultTotalTracks == 200

Dates == 1..MaxDate

countries == <<"global", "ar">>
Countries == {countries[k] : k \in 1..Len(countries)}

\* The JSON files a date folder can hold, by name: the snapshot of a
\* country, spotify_<country>_daily_<date>.json, or a file of another name.
OtherJson == "notes"
FileNames == Countries \cup {OtherJson}

DATES_TO_SCRAPE == <<2, 1>>
DATE_TO_SCRAPE == 2
TARGETS ==
  << [date |-> 2, country |-> "ar"],
     [date |-> 1, country |-> "global"],
     [date |-> 1, country |-> "ar"] >>

Variants == {"ByDate", "ByDateOne", "Latest", "Single", "Part000", "Part001"}

\* The scripts that declare the SKIP_IF_EXISTS flag.
HasSkipFlag(v) == v \in {"ByDate", "ByDateOne", "Latest", "Part000"}
\* The scripts that write data/<date>/spotify_<country>_daily_<date>.json;
\* the others write the file straight into data/.
WritesDateFolder(v) == v \in {"ByDate", "Latest", "Single"}
\* The scripts that stamp the snapshot with new Date() of the system clock.
UsesClock(v) == v \in {"Part000", "Part001"}
\* The script whose downloadCSV falls back on the date found in the page.
\* (Part000 reads that date too, and never uses it.)
ReadsPageDate(v) == v = "Latest"

VARIABLES
  variant,            \* the scraper script of this behaviour
  SKIP_IF_EXISTS,     \* its duplicate-avoidance flag
  pc,                 \* position of the running script ("idle": none runs)
  scraperRuns,        \* scraper runs started so far
  loaderRuns,         \* loader runs started so far
  today,              \* the system date
  \* --- scraper: main
  dateIndex, i,
  successCount, errorCount, skippedCount,
  totalSuccessCount, totalErrorCount, totalSkippedCount,
  skipAllCountries,
  \* --- scraper: processCountry / downloadCSV of the current target
  pageDate, csvContent, csvDate, result, returned,
  \* --- file system and browser
  files,              \* JSON files: [FileNames \X Dates -> file or NoFile]
  dirs,               \* the date folders that exist under data/
  tempDir,            \* the CSV files in data/temp
  download,           \* the download the browser has in flight
  strays,             \* times a CSV was left behind in data/temp so far
  \* --- database
  db,                 \* db[c]: the snapshots (date, scraper run) that have
                      \* rows in table spotify_data_<c>
  \* --- loader
  folders,            \* main: the date folders still to process
  dateFolder,         \* processDateFolder: the folder being processed
  jsonFiles,          \* processDateFolder: its files still to process
  folderFiles,        \* processDateFolder: jsonFiles.length
  file,               \* processJsonFile: the country of the file name
  data,               \* processJsonFile: the parsed content of the file
  trackIdx,           \* processJsonFile: position in data.tracks
  fileSuccess, fileFailed,         \* processJsonFile: its two counters
  totalSuccess, totalFailed,       \* processDateFolder: its two counters
  totalFilesProcessed, totalSuccessInserts, totalFailedInserts,
  \* --- history (not program state)
  events,             \* what processCountry has done for the current target
  outcome,            \* per target of the current run: how it ended
  attempted,          \* targets of the current run whose processing began
  summaries,          \* the per-date summaries the run has logged
  rewrote,            \* the current target's write replaced an existing file
  checkedDate,        \* the date the ledger was consulted with (Null: not yet)
  attemptLog          \* the inserts attempted for the current file

scraperVars ==
  << dateIndex, i, successCount, errorCount, skippedCount,
     totalSuccessCount, totalErrorCount, totalSkippedCount, skipAllCountries >>
targetVars == << pageDate, csvContent, csvDate, result, returned >>
envVars == << files, dirs, tempDir, download, strays >>
fileVars == << file, data, trackIdx, fileSuccess, fileFailed >>
folderVars == << dateFolder, jsonFiles, folderFiles, totalSuccess, totalFailed >>
loaderVars ==
  << folders, folderVars, fileVars,
     totalFilesProcessed, totalSuccessInserts, totalFailedInserts >>
histVars ==
  << events, outcome, attempted, summaries, rewrote, checkedDate, attemptLog >>
confVars == << variant, SKIP_IF_EXISTS >>
vars ==
  << confVars, pc, scraperRuns, loaderRuns, today, scraperVars, targetVars,
     envVars, db, loaderVars, histVars >>

\* ------------------------------------------------------------ data shapes
NoFile == [date |-> Null, total_tracks |-> 0, tracks |-> <<>>, run |-> 0]
NoDownload == [name |-> Null, content |-> <<>>, target |-> 0]
NoResult == NoFile
NoReturn == [skipped |-> FALSE, date |-> Null]
NoData == NoFile
\* The JSON object {}: no date, no total_tracks, no tracks.
EmptyObject == [date |-> Null, total_tracks |-> 0, run |-> 0]

\* ------------------------------------------------------------------ text
\* A text is a sequence of symbols.  A symbol is one character (a digit, the
\* comma, the double quote, the space, the line feed) or a run of letters,
\* which no function of the scripts looks into.
Digits == <<"0", "1", "2", "3", "4", "5", "6", "7", "8", "9">>
IsDigit(ch) == \E k \in DOMAIN Digits : Digits[k] = ch
DigitValue(ch) == (CHOOSE k \in DOMAIN Digits : Digits[k] = ch) - 1
Whitespace == {" ", "\n"}

\* The header line of the CSV the remote source serves.
CsvHeader ==
  << "rank", ",", "uri", ",", "artist_names", ",", "track_name", ",",
     "source", ",", "peak_rank", ",", "previous_rank", ",", "days_on_chart",
     ",", "streams" >>

\* A data line: the nine fields in the order of the header line.
DataLine(rank, artist, peak, previous) ==
  rank \o << ",", "uri", "," >> \o artist \o << ",", "t", ",", "s", "," >>
  \o peak \o <<",">> \o previous \o << ",", "1", ",", "5" >>

\* The data line of rank k of the chart of a country: the artist names are
\* quoted and hold a comma; the first entry of a chart has no previous rank,
\* which the chart of ar writes as 0 and the chart of global leaves empty.
CsvLine(c, k) ==
  DataLine(<<Digits[k + 1]>>, << "\"", "a", ",", " ", "b", "\"" >>, <<"1">>,
           IF k > 1 THEN <<Digits[k]>>
           ELSE IF c = "ar" THEN <<"0">> ELSE <<>>)

\* The chart the remote source serves for a country and a date: the header
\* line and one data line per rank.
ChartRows(c, d) == IF c = "global" THEN MaxRows ELSE d - 1
RECURSIVE CsvLines(_, _)
CsvLines(c, n) ==
  IF n = 0 THEN <<>> ELSE CsvLines(c, n - 1) \o <<"\n">> \o CsvLine(c, n)
Chart(c, d) == CsvHeader \o CsvLines(c, ChartRows(c, d)) \o <<"\n">>

\* ------------------------------------------------------- the target list
\* Number of targets of the inner loop of main.
NumInner == IF variant = "Single" THEN Len(TARGETS) ELSE Len(countries)
NumOuter == IF variant = "ByDate" THEN Len(DATES_TO_SCRAPE) ELSE 1
NumTargets == NumOuter * NumInner

\* Position of the current target in the whole run.
Flat(di, k) == (di - 1) * NumInner + k
Cur == Flat(dateIndex, i)

country == IF variant = "Single" THEN TARGETS[i].country ELSE countries[i]
\* The date main passes to processCountry: a concrete date, or the
\* "latest" of the URL the date-less scripts navigate to.
date ==
  CASE variant = "ByDate" -> DATES_TO_SCRAPE[dateIndex]
    [] variant = "ByDateOne" -> DATE_TO_SCRAPE
    [] variant = "Single" -> TARGETS[i].date
    [] OTHER -> LATEST

isFirstDownload == (i = 1)
shouldCheckExistence == (i = 1)

\* ------------------------------------------------------------ the ledger
\* checkIfDateExists / checkIfFileExists: fs.access of the snapshot file.
checkIfDateExists(c, d) == files[c, d] # NoFile

\* getLocalFileDate: the date of the newest snapshot file of the country.
getLocalFileDate(c) ==
  LET ds == {d \in Dates : files[c, d] # NoFile}
  IN IF ds = {} THEN Null ELSE CHOOSE d \in ds : \A e \in ds : e <= d

Init ==
  /\ variant \in Variants
  /\ SKIP_IF_EXISTS \in (IF HasSkipFlag(variant) THEN BOOLEAN ELSE {FALSE})
  /\ pc = "idle"
  /\ scraperRuns = 0
  /\ loaderRuns = 0
  /\ today = 1
  /\ dateIndex = 1
  /\ i = 1
  /\ successCount = 0
  /\ errorCount = 0
  /\ skippedCount = 0
  /\ totalSuccessCount = 0
  /\ totalErrorCount = 0
  /\ totalSkippedCount = 0
  /\ skipAllCountries = FALSE
  /\ pageDate = Null
  /\ csvContent = <<>>
  /\ csvDate = Null
  /\ result = NoResult
  /\ returned = NoReturn
  /\ files = [k \in FileNames \X Dates |-> NoFile]
  /\ dirs = {}
  /\ tempDir = {}
  /\ download = NoDownload
  /\ strays = 0
  /\ db = [c \in Countries |-> {}]
  /\ folders = <<>>
  /\ dateFolder = Null
  /\ jsonFiles = <<>>
  /\ folderFiles = 0
  /\ file = ""
  /\ data = NoData
  /\ trackIdx = 1
  /\ fileSuccess = 0
  /\ fileFailed = 0
  /\ totalSuccess = 0
  /\ totalFailed = 0
  /\ totalFilesProcessed = 0
  /\ totalSuccessInserts = 0
  /\ totalFailedInserts = 0
  /\ events = <<>>
  /\ outcome = <<>>
  /\ attempted = {}
  /\ summaries = <<>>
  /\ rewrote = FALSE
  /\ checkedDate = Null
  /\ attemptLog = <<>>

\* ================================================================ scraper
ScraperPcs ==
  {"loop", "precheck", "goto", "click", "wait", "resolve", "check", "parse",
   "write", "count", "catch", "done"}

InLoop == dateIndex <= NumOuter /\ i <= NumInner

\* The existence check made before the download (ByDateOne, Part000).
PreCheckEnabled == variant \in {"ByDateOne", "Part000"} /\ SKIP_IF_EXISTS

\* An existence check after the download that does not look at the flag.
PostCheckAlways ==
  \/ variant = "ByDate"
  \/ variant = "Latest" /\ shouldCheckExistence

\* The existence check made after the download (ByDate, Latest).
PostCheckEnabled ==
  \/ variant = "ByDate" /\ SKIP_IF_EXISTS
  \/ variant = "Latest" /\ shouldCheckExistence /\ SKIP_IF_EXISTS

\* main, up to the loop over the targets.
StartScraper ==
  /\ pc = "idle"
  /\ scraperRuns < MaxScraperRuns
  /\ scraperRuns' = scraperRuns + 1
  /\ today' \in (IF UsesClock(variant) THEN {d \in Dates : d >= today}
                                      ELSE {today})
  /\ pc' = "loop"
  /\ dateIndex' = 1
  /\ i' = 1
  /\ successCount' = 0
  /\ errorCount' = 0
  /\ skippedCount' = 0
  /\ totalSuccessCount' = 0
  /\ totalErrorCount' = 0
  /\ totalSkippedCount' = 0
  /\ skipAllCountries' = FALSE
  /\ outcome' = [j \in 1..NumTargets |-> "none"]
  /\ attempted' = {}
  /\ summaries' = <<>>
  /\ events' = <<>>
  /\ rewrote' = FALSE
  /\ checkedDate' = Null
  /\ UNCHANGED << confVars, loaderRuns, targetVars, envVars, db, loaderVars,
                  attemptLog >>

\* main of Latest: once the first country was skipped, every other country
\* is counted as skipped without being processed.
SkipRemaining ==
  /\ pc = "loop"
  /\ InLoop
  /\ skipAllCountries
  /\ skippedCount' = skippedCount + 1
  /\ outcome' = [outcome EXCEPT ![Cur] = "skipped"]
  /\ i' = i + 1
  /\ UNCHANGED << confVars, pc, scraperRuns, loaderRuns, today, dateIndex,
                  successCount, errorCount, totalSuccessCount,
                  totalErrorCount, totalSkippedCount, skipAllCountries,
                  targetVars, envVars, db, loaderVars, events, attempted,
                  summaries, rewrote, checkedDate, attemptLog >>

\* The locals of processCountry and downloadCSV, and what is recorded of the
\* current target, are gone once main has counted the target.
ClearTarget ==
  /\ pageDate' = Null
  /\ csvContent' = <<>>
  /\ csvDate' = Null
  /\ result' = NoResult
  /\ returned' = NoReturn
  /\ events' = <<>>
  /\ rewrote' = FALSE
  /\ checkedDate' = Null

\* A main that calls processCountry for the next two targets at once.
BeginTargetAhead ==
  /\ pc = "loop"
  /\ InLoop
  /\ ~skipAllCountries
  /\ attempted' = attempted \cup ({Cur, Cur + 1} \cap (1..NumTargets))
  /\ pc' = IF PreCheckEnabled THEN "precheck" ELSE "goto"
  /\ UNCHANGED << confVars, scraperRuns, loaderRuns, today, scraperVars,
                  targetVars, envVars, db, loaderVars, events, outcome,
                  summaries, rewrote, checkedDate, attemptLog >>

\* main calls processCountry for the next target.
BeginTarget ==
  /\ pc = "loop"
  /\ InLoop
  /\ ~skipAllCountries
  /\ attempted' = attempted \cup {Cur}
  /\ pc' = IF PreCheckEnabled THEN "precheck" ELSE "goto"
  /\ UNCHANGED << confVars, scraperRuns, loaderRuns, today, scraperVars,
                  targetVars, envVars, db, loaderVars, events, outcome,
                  summaries, rewrote, checkedDate, attemptLog >>

\* processCountry of ByDateOne and Part000: the existence check comes first,
\* with the requested date (ByDateOne) or the system date (Part000).
PreCheck ==
  /\ pc = "precheck"
  /\ LET exists ==
           IF variant = "ByDateOne"
             THEN checkIfDateExists(country, date)
             ELSE getLocalFileDate(country) # Null
                  /\ getLocalFileDate(country) = today
         d == IF variant = "ByDateOne" THEN date ELSE today
     IN /\ events' = Append(events, "check")
        /\ checkedDate' = d
        /\ IF exists
             THEN /\ returned' = [skipped |-> TRUE, date |-> d]
                  /\ pc' = "count"
             ELSE /\ returned' = returned
                  /\ pc' = "goto"
  /\ UNCHANGED << confVars, scraperRuns, loaderRuns, today, scraperVars,
                  pageDate, csvContent, csvDate, result, envVars, db,
                  loaderVars, outcome, attempted, summaries, rewrote,
                  attemptLog >>

\* downloadCSV: page.goto succeeds; Latest and Part000 then look for a date
\* in the content of the page.
Navigate ==
  /\ pc = "goto"
  /\ events' = Append(events, "fetch")
  /\ pageDate' \in (IF ReadsPageDate(variant) THEN {Null} \cup Dates
                                              ELSE {Null})
  /\ pc' = "click"
  /\ UNCHANGED << confVars, scraperRuns, loaderRuns, today, scraperVars,
                  csvContent, csvDate, result, returned, envVars, db,
                  loaderVars, outcome, attempted, summaries, rewrote,
                  checkedDate, attemptLog >>

\* downloadCSV: page.goto throws (navigation timeout).
NavigateFails ==
  /\ pc = "goto"
  /\ events' = Append(events, "fetch")
  /\ pc' = "catch"
  /\ UNCHANGED << confVars, scraperRuns, loaderRuns, today, scraperVars,
                  targetVars, envVars, db, loaderVars, outcome, attempted,
                  summaries, rewrote, checkedDate, attemptLog >>

\* downloadCSV: the download button is found and clicked; the browser starts
\* downloading the chart the source serves, under a file name that may or
\* may not carry the date of the chart.
ClickDownload ==
  /\ pc = "click"
  /\ \E served \in Dates : \E name \in {Null, served} :
       download' = [name |-> name, content |-> Chart(country, served),
                    target |-> Cur]
  /\ pc' = "wait"
  /\ UNCHANGED << confVars, scraperRuns, loaderRuns, today, scraperVars,
                  targetVars, files, dirs, tempDir, strays, db, loaderVars,
                  histVars >>

\* downloadCSV: waitForSelector times out, the function throws.
ButtonNotFound ==
  /\ pc = "click"
  /\ pc' = "catch"
  /\ UNCHANGED << confVars, scraperRuns, loaderRuns, today, scraperVars,
                  targetVars, envVars, db, loaderVars, histVars >>

\* The browser finishes the download in flight during the download wait:
\* the file appears in data/temp.
DownloadArrives ==
  /\ download # NoDownload
  /\ pc = "wait"
  /\ tempDir' = tempDir \cup {download}
  /\ download' = NoDownload
  /\ UNCHANGED << confVars, pc, scraperRuns, loaderRuns, today, scraperVars,
                  targetVars, files, dirs, strays, db, loaderVars, histVars >>

\* The download completes too late for the target that asked for it, after
\* its readdir.  The steps between that readdir and the end of the target do
\* not look at data/temp, so the arrival is placed at the end of the target.
\* A download still in flight at the next click never completes.
DownloadArrivesLate ==
  /\ download # NoDownload
  /\ pc \in {"count", "catch"}
  /\ strays < MaxStrays
  /\ strays' = strays + 1
  /\ tempDir' = tempDir \cup {download}
  /\ download' = NoDownload
  /\ UNCHANGED << confVars, pc, scraperRuns, loaderRuns, today, scraperVars,
                  targetVars, files, dirs, db, loaderVars, histVars >>

\* The date downloadCSV returns with the content of the file it read.
csvDateOf(f) ==
  CASE variant = "ByDate" -> f.name
    [] variant = "Latest" -> IF f.name # Null THEN f.name ELSE pageDate
    [] OTHER -> Null

AfterDownload == IF variant \in {"ByDate", "Latest"} THEN "resolve" ELSE "parse"

\* A downloadCSV that clicks the download button again when readdir finds
\* no CSV.
NoCsvFileRetries ==
  /\ pc = "wait"
  /\ tempDir = {}
  /\ pc' = "click"
  /\ UNCHANGED << confVars, scraperRuns, loaderRuns, today, scraperVars,
                  targetVars, envVars, db, loaderVars, histVars >>

\* downloadCSV after the download wait: readdir finds no CSV, it throws.
NoCsvFile ==
  /\ pc = "wait"
  /\ tempDir = {}
  /\ pc' = "catch"
  /\ UNCHANGED << confVars, scraperRuns, loaderRuns, today, scraperVars,
                  targetVars, envVars, db, loaderVars, histVars >>

\* downloadCSV after the download wait: the first CSV readdir lists is read,
\* its date is taken from its name, and it is unlinked.
ReadStaged ==
  /\ pc = "wait"
  /\ \E f \in tempDir :
       /\ csvContent' = f.content
       /\ csvDate' = csvDateOf(f)
       /\ tempDir' = tempDir \ {f}
  /\ pc' = AfterDownload
  /\ UNCHANGED << confVars, scraperRuns, loaderRuns, today, scraperVars,
                  pageDate, result, returned, files, dirs, download, strays,
                  db, loaderVars, histVars >>

\* downloadCSV: fs.unlink of the staged file throws after the file was read;
\* the file stays and downloadCSV throws.
UnlinkStagedFails ==
  /\ pc = "wait"
  /\ tempDir # {}
  /\ strays < MaxStrays
  /\ strays' = strays + 1
  /\ pc' = "catch"
  /\ UNCHANGED << confVars, scraperRuns, loaderRuns, today, scraperVars,
                  targetVars, files, dirs, tempDir, download, db, loaderVars,
                  histVars >>

\* A processCountry that treats a date other than the requested one as an
\* error.
ResolveDateStrict ==
  /\ pc = "resolve"
  /\ IF csvDate = Null \/ (variant = "ByDate" /\ csvDate # date)
       THEN /\ events' = Append(events, "resolve")
            /\ pc' = "catch"
       ELSE /\ events' = Append(events, "resolve")
            /\ pc' = IF PostCheckEnabled THEN "check" ELSE "parse"
  /\ UNCHANGED << confVars, scraperRuns, loaderRuns, today, scraperVars,
                  targetVars, envVars, db, loaderVars, outcome, attempted,
                  summaries, rewrote, checkedDate, attemptLog >>

\* processCountry of ByDate and Latest: no date, no snapshot; ByDate warns
\* when the date of the CSV is not the requested one.
ResolveDate ==
  /\ pc = "resolve"
  /\ IF csvDate = Null
       THEN /\ events' = Append(events, "resolve")
            /\ pc' = "catch"
       ELSE /\ events' =
                 IF variant = "ByDate" /\ csvDate # date
                   THEN events \o <<"resolve", "warn">>
                   ELSE Append(events, "resolve")
            /\ pc' = IF PostCheckEnabled THEN "check" ELSE "parse"
  /\ UNCHANGED << confVars, scraperRuns, loaderRuns, today, scraperVars,
                  targetVars, envVars, db, loaderVars, outcome, attempted,
                  summaries, rewrote, checkedDate, attemptLog >>

\* processCountry of ByDate and Latest: the existence check, with the date
\* of the CSV.
CheckExists ==
  /\ pc = "check"
  /\ events' = Append(events, "check")
  /\ checkedDate' = csvDate
  /\ IF checkIfDateExists(country, csvDate)
       THEN /\ returned' = [skipped |-> TRUE, date |-> csvDate]
            /\ pc' = "count"
       ELSE /\ returned' = returned
            /\ pc' = "parse"
  /\ UNCHANGED << confVars, scraperRuns, loaderRuns, today, scraperVars,
                  pageDate, csvContent, csvDate, result, envVars, db,
                  loaderVars, outcome, attempted, summaries, rewrote,
                  attemptLog >>

\* ------------------------------------------------ parseCSV, normalizeTracks
\* String.prototype.trim.
RECURSIVE trimStart(_), trimEnd(_)
trimStart(s) ==
  IF s # <<>> /\ Head(s) \in Whitespace THEN trimStart(Tail(s)) ELSE s
trimEnd(s) ==
  IF s # <<>> /\ s[Len(s)] \in Whitespace
    THEN trimEnd(SubSeq(s, 1, Len(s) - 1))
    ELSE s
trim(s) == trimEnd(trimStart(s))

\* String.prototype.split with a one-character separator: the pieces between
\* the separators, one piece (the whole string) when there is none.
RECURSIVE split(_, _)
split(s, sep) ==
  IF \E k \in DOMAIN s : s[k] = sep
    THEN LET k == CHOOSE m \in DOMAIN s :
                    s[m] = sep /\ \A n \in 1..(m - 1) : s[n] # sep
         IN <<SubSeq(s, 1, k - 1)>> \o split(SubSeq(s, k + 1, Len(s)), sep)
    ELSE <<s>>

\* The string a sequence of symbols spells, as the key of an object.
RECURSIVE spelled(_)
spelled(s) == IF s = <<>> THEN "" ELSE Head(s) \o spelled(Tail(s))

\* A loop over the characters of one line that ends a field at every comma,
\* quoted or not.
RECURSIVE scanLineNoQuotes(_, _, _, _)
scanLineNoQuotes(rest, current, inQuotes, values) ==
  IF rest = <<>>
    THEN Append(values, trim(current))
    ELSE LET char == Head(rest)
         IN IF char = "\""
              THEN scanLineNoQuotes(Tail(rest), current, inQuotes, values)
              ELSE IF char = ","
                THEN scanLineNoQuotes(Tail(rest), <<>>, inQuotes,
                                      Append(values, trim(current)))
                ELSE scanLineNoQuotes(Tail(rest), Append(current, char),
                                      inQuotes, values)

\* parseCSV: the loop over the characters of one line.
RECURSIVE scanLine(_, _, _, _)
scanLine(rest, current, inQuotes, values) ==
  IF rest = <<>>
    THEN Append(values, trim(current))
    ELSE LET char == Head(rest)
         IN IF char = "\""
              THEN scanLine(Tail(rest), current, ~inQuotes, values)
              ELSE IF char = "," /\ ~inQuotes
                THEN scanLine(Tail(rest), <<>>, inQuotes,
                              Append(values, trim(current)))
                ELSE scanLine(Tail(rest), Append(current, char), inQuotes,
                              values)
lineValues(line) == scanLine(line, <<>>, FALSE, <<>>)

\* A headers.reduce that leaves out the headers the line has no value for.
rowObjectOfValues(headers, values) ==
  [h \in {headers[j] : j \in {n \in DOMAIN headers : n <= Len(values)}} |->
     LET k == CHOOSE m \in DOMAIN headers :
                headers[m] = h /\ \A n \in (m + 1)..Len(headers) : headers[n] # h
     IN IF k <= Len(values) THEN values[k] ELSE <<>>]

\* parseCSV: headers.reduce; a header that occurs twice keeps the value of
\* its last column, and values[index] || '' is the empty string for a
\* column the line does not have.
rowObject(headers, values) ==
  [h \in {headers[k] : k \in DOMAIN headers} |->
     LET k == CHOOSE m \in DOMAIN headers :
                headers[m] = h /\ \A n \in (m + 1)..Len(headers) : headers[n] # h
     IN IF k <= Len(values) THEN values[k] ELSE <<>>]

\* A parseCSV that splits the payload without trimming it first.
csvLinesUntrimmed(csv) == split(csv, "\n")
csvLinesOf(csv) == split(trim(csv), "\n")
csvHeaders(csv) ==
  LET cells == split(csvLinesOf(csv)[1], ",")
  IN [k \in DOMAIN cells |-> spelled(trim(cells[k]))]
\* A parseCSV that maps every line, the header line too (lines in place of
\* lines.slice(1)).
parseCSVEveryLine(csv) ==
  LET lines == csvLinesOf(csv)
  IN [k \in 1..Len(lines) |->
        rowObject(csvHeaders(csv), lineValues(lines[k]))]
parseCSV(csv) ==
  LET lines == csvLinesOf(csv)
  IN [k \in 1..(Len(lines) - 1) |->
        rowObject(csvHeaders(csv), lineValues(lines[k + 1]))]

\* The values of JavaScript the tracks are made of.
Str(s) == [t |-> "string", v |-> s]
Num(n) == [t |-> "number", v |-> n]
NaN == [t |-> "NaN", v |-> 0]
JsNull == [t |-> "null", v |-> 0]
Undefined == [t |-> "undefined", v |-> 0]

\* row.name: undefined for a column the header line does not have.
prop(row, name) == IF name \in DOMAIN row THEN Str(row[name]) ELSE Undefined

\* The value of a string of digits.
RECURSIVE decimal(_)
decimal(s) ==
  IF s = <<>> THEN 0
              ELSE 10 * decimal(SubSeq(s, 1, Len(s) - 1)) + DigitValue(s[Len(s)])

\* Number(x) for a string or undefined: the empty string and the blank
\* string are 0, a string of digits is its value, anything else is NaN.
\* (The symbols of the model hold no sign, point or exponent.)
Number(x) ==
  IF x.t # "string" THEN NaN
  ELSE LET s == trim(x.v)
       IN IF \A k \in DOMAIN s : IsDigit(s[k]) THEN Num(decimal(s)) ELSE NaN

\* The truth value of a value in a condition or on the left of ||.
truthy(x) ==
  CASE x.t = "string" -> x.v # <<>>
    [] x.t = "number" -> x.v # 0
    [] OTHER -> FALSE

normalizeTrack(row) ==
  [rank |-> Number(prop(row, "rank")),
   uri |-> prop(row, "uri"),
   artist_names |-> prop(row, "artist_names"),
   track_name |-> prop(row, "track_name"),
   source |-> prop(row, "source"),
   peak_rank |-> Number(prop(row, "peak_rank")),
   previous_rank |-> IF truthy(prop(row, "previous_rank"))
                       THEN Number(prop(row, "previous_rank"))
                       ELSE JsNull,
   days_on_chart |-> Number(prop(row, "days_on_chart")),
   streams |-> Number(prop(row, "streams"))]
normalizeTracks(rows) == [k \in DOMAIN rows |-> normalizeTrack(rows[k])]

\* The date the snapshot object is stamped with.
chartDate ==
  CASE variant \in {"ByDate", "Latest"} -> csvDate
    [] variant \in {"ByDateOne", "Single"} -> date
    [] OTHER -> today

\* processCountry: parse, normalize and build the snapshot object.
ParseNormalize ==
  /\ pc = "parse"
  /\ LET rows == parseCSV(csvContent)
         tracks == normalizeTracks(rows)
     IN result' = [date |-> chartDate, total_tracks |-> Len(tracks),
                   tracks |-> tracks, run |-> scraperRuns]
  /\ events' = events \o <<"parse", "normalize">>
  /\ pc' = "write"
  /\ UNCHANGED << confVars, scraperRuns, loaderRuns, today, scraperVars,
                  pageDate, csvContent, csvDate, returned, envVars, db,
                  loaderVars, outcome, attempted, summaries, rewrote,
                  checkedDate, attemptLog >>

\* Whether the script waits the pause between countries after this target.
Paces ==
  CASE variant \in {"ByDate", "ByDateOne"} -> TRUE
    [] variant = "Single" -> successCount + 1 < Len(TARGETS)
    [] OTHER -> ~isFirstDownload

\* JSON.stringify of a value of a track, read back by JSON.parse: NaN is
\* written as null, a property that is undefined is left out and is
\* undefined when read.
jsonValue(x) == IF x.t = "NaN" THEN JsNull ELSE x
jsonTrack(tr) == [f \in DOMAIN tr |-> jsonValue(tr[f])]
jsonFile(r) ==
  [r EXCEPT !.tracks = [k \in DOMAIN r.tracks |-> jsonTrack(r.tracks[k])]]

\* The date in the object processCountry returns after a write; Single and
\* Part001 return nothing.
returnedDate ==
  CASE variant \in {"ByDate", "ByDateOne"} -> date
    [] variant \in {"Latest", "Part000"} -> result.date
    [] OTHER -> Null

\* processCountry: mkdir of the date folder, writeFile of the snapshot, the
\* pause, and the return to main.
WriteFile ==
  /\ pc = "write"
  /\ dirs' = IF WritesDateFolder(variant) THEN dirs \cup {result.date}
                                          ELSE dirs
  /\ files' = [files EXCEPT ![country, result.date] = jsonFile(result)]
  /\ rewrote' = (files[country, result.date] # NoFile)
  /\ events' = IF Paces THEN events \o <<"write", "pace">>
                        ELSE Append(events, "write")
  /\ returned' = [skipped |-> FALSE, date |-> returnedDate]
  /\ pc' = "count"
  /\ UNCHANGED << confVars, scraperRuns, loaderRuns, today, scraperVars,
                  pageDate, csvContent, csvDate, result, tempDir, download,
                  strays, db, loaderVars, outcome, attempted, summaries,
                  checkedDate, attemptLog >>

\* A main that counts a skipped target in no bucket.
CountDropsSkipped ==
  /\ pc = "count"
  /\ IF returned.skipped
       THEN /\ skippedCount' = skippedCount
            /\ successCount' = successCount
            /\ skipAllCountries' =
                 IF variant = "Latest" /\ i = 1 THEN TRUE
                                                ELSE skipAllCountries
            /\ outcome' = [outcome EXCEPT ![Cur] = "skipped"]
       ELSE /\ successCount' = successCount + 1
            /\ skippedCount' = skippedCount
            /\ skipAllCountries' = skipAllCountries
            /\ outcome' = [outcome EXCEPT ![Cur] = "succeeded"]
  /\ i' = i + 1
  /\ pc' = "loop"
  /\ ClearTarget
  /\ UNCHANGED << confVars, scraperRuns, loaderRuns, today, dateIndex,
                  errorCount, totalSuccessCount, totalErrorCount,
                  totalSkippedCount, envVars, db, loaderVars, attempted,
                  summaries, attemptLog >>

\* main: processCountry returned; the target is counted as skipped or as
\* succeeded, and in Latest a skipped first country skips all the others.
Count ==
  /\ pc = "count"
  /\ IF returned.skipped
       THEN /\ skippedCount' = skippedCount + 1
            /\ successCount' = successCount
            /\ skipAllCountries' =
                 IF variant = "Latest" /\ i = 1 THEN TRUE
                                                ELSE skipAllCountries
            /\ outcome' = [outcome EXCEPT ![Cur] = "skipped"]
       ELSE /\ successCount' = successCount + 1
            /\ skippedCount' = skippedCount
            /\ skipAllCountries' = skipAllCountries
            /\ outcome' = [outcome EXCEPT ![Cur] = "succeeded"]
  /\ i' = i + 1
  /\ pc' = "loop"
  /\ ClearTarget
  /\ UNCHANGED << confVars, scraperRuns, loaderRuns, today, dateIndex,
                  errorCount, totalSuccessCount, totalErrorCount,
                  totalSkippedCount, envVars, db, loaderVars, attempted,
                  summaries, attemptLog >>

\* A main whose catch ends the loop: the first failure aborts the batch.
CatchAborts ==
  /\ pc = "catch"
  /\ errorCount' = errorCount + 1
  /\ outcome' = [outcome EXCEPT ![Cur] = "failed"]
  /\ i' = i + 1
  /\ pc' = "done"
  /\ ClearTarget
  /\ UNCHANGED << confVars, scraperRuns, loaderRuns, today, dateIndex,
                  successCount, skippedCount, totalSuccessCount,
                  totalErrorCount, totalSkippedCount, skipAllCountries,
                  envVars, db, loaderVars, attempted, summaries,
                  attemptLog >>

\* A main whose catch leaves the loop index where it is: the target that
\* failed is processed again.
CatchRetries ==
  /\ pc = "catch"
  /\ pc' = "loop"
  /\ ClearTarget
  /\ UNCHANGED << confVars, scraperRuns, loaderRuns, today, scraperVars,
                  envVars, db, loaderVars, outcome, attempted, summaries,
                  attemptLog >>

\* main: processCountry threw; the target is counted as failed and the loop
\* goes on.
Catch ==
  /\ pc = "catch"
  /\ errorCount' = errorCount + 1
  /\ outcome' = [outcome EXCEPT ![Cur] = "failed"]
  /\ i' = i + 1
  /\ pc' = "loop"
  /\ ClearTarget
  /\ UNCHANGED << confVars, scraperRuns, loaderRuns, today, dateIndex,
                  successCount, skippedCount, totalSuccessCount,
                  totalErrorCount, totalSkippedCount, skipAllCountries,
                  envVars, db, loaderVars, attempted, summaries,
                  attemptLog >>

\* main of ByDate: the countries of one date are done; the summary of the
\* date is logged and added to the totals.
EndOfDate ==
  /\ pc = "loop"
  /\ variant = "ByDate"
  /\ dateIndex <= NumOuter
  /\ i > NumInner
  /\ summaries' = Append(summaries,
       [success |-> successCount, skipped |-> skippedCount,
        error |-> errorCount])
  /\ totalSuccessCount' = totalSuccessCount + successCount
  /\ totalErrorCount' = totalErrorCount + errorCount
  /\ totalSkippedCount' = totalSkippedCount + skippedCount
  /\ successCount' = 0
  /\ errorCount' = 0
  /\ skippedCount' = 0
  /\ dateIndex' = dateIndex + 1
  /\ i' = 1
  /\ UNCHANGED << confVars, pc, scraperRuns, loaderRuns, today,
                  skipAllCountries, targetVars, envVars, db, loaderVars,
                  events, outcome, attempted, rewrote, checkedDate,
                  attemptLog >>

\* main: the counts the final summary logs.  Single and Part001, which have
\* no existence check, keep and log no count of skipped targets.
finalSummary ==
  CASE variant = "ByDate" ->
         [succeeded |-> totalSuccessCount, skipped |-> totalSkippedCount,
          failed |-> totalErrorCount]
    [] variant \in {"Single", "Part001"} ->
         [succeeded |-> successCount, failed |-> errorCount]
    [] OTHER ->
         [succeeded |-> successCount, skipped |-> skippedCount,
          failed |-> errorCount]

\* main: every target is done, the final summary is logged.
Finish ==
  /\ pc = "loop"
  /\ IF variant = "ByDate" THEN dateIndex > NumOuter ELSE i > NumInner
  /\ pc' = "done"
  /\ UNCHANGED << confVars, scraperRuns, loaderRuns, today, scraperVars,
                  targetVars, envVars, db, loaderVars, histVars >>

\* main: browser.close() and the end of the process.  The memory of the run
\* is gone and a download still in flight dies with the browser; what stays
\* is the file system.  The CSV files left in data/temp now are files of an
\* earlier run (target 0) for every run that follows.
ExitScraper ==
  /\ pc = "done"
  /\ pc' = "idle"
  /\ dateIndex' = 1
  /\ i' = 1
  /\ successCount' = 0
  /\ errorCount' = 0
  /\ skippedCount' = 0
  /\ totalSuccessCount' = 0
  /\ totalErrorCount' = 0
  /\ totalSkippedCount' = 0
  /\ skipAllCountries' = FALSE
  /\ outcome' = <<>>
  /\ attempted' = {}
  /\ summaries' = <<>>
  /\ download' = NoDownload
  /\ tempDir' = {[f EXCEPT !.target = 0] : f \in tempDir}
  /\ UNCHANGED << confVars, scraperRuns, loaderRuns, today, targetVars,
                  files, dirs, strays, db, loaderVars, events, rewrote,
                  checkedDate, attemptLog >>

\* The steps of one run of the scraper that wait for the browser, the file
\* system or a timer.
RunSteps ==
  \/ SkipRemaining
  \/ BeginTarget
  \/ PreCheck
  \/ Navigate
  \/ NavigateFails
  \/ ClickDownload
  \/ ButtonNotFound
  \/ DownloadArrives
  \/ NoCsvFile
  \/ ReadStaged
  \/ ResolveDate
  \/ CheckExists
  \/ WriteFile
  \/ Count
  \/ Catch
  \/ EndOfDate
  \/ Finish
  \/ ExitScraper

\* The steps of one run of the scraper.
RunNext == RunSteps \/ ParseNormalize

ScraperNext == StartScraper \/ RunNext

\* ================================================================= loader
LoaderPcs == {"l_folders", "l_files", "l_insert", "l_done"}

\* fs.readdirSync lists names in order.
SortedCountries == <<"ar", "global">>
SortedNames == <<OtherJson>> \o SortedCountries
SortedDates == [k \in 1..MaxDate |-> k]
IsDir(d) == d \in dirs
IsJson(c) == files[c, dateFolder] # NoFile
IsJsonIn(d, c) == files[c, d] # NoFile

\* extractCountryFromFilename: the country in the name of a snapshot file,
\* and null (here the empty name) for any other name.
extractCountryFromFilename(filename) ==
  IF filename \in Countries THEN filename ELSE ""

\* data.tracks && Array.isArray(data.tracks).
hasTracks(parsed) == "tracks" \in DOMAIN parsed

\* JavaScript's a || b on numbers.
OrElse(a, b) == IF a = 0 THEN b ELSE a

\* main: the connection is made and the date folders of data/ are listed.
StartLoader ==
  /\ pc = "idle"
  /\ loaderRuns < MaxLoaderRuns
  /\ loaderRuns' = loaderRuns + 1
  /\ folders' = SelectSeq(SortedDates, IsDir)
  /\ totalFilesProcessed' = 0
  /\ totalSuccessInserts' = 0
  /\ totalFailedInserts' = 0
  /\ pc' = "l_folders"
  /\ UNCHANGED << confVars, scraperRuns, today, scraperVars, targetVars,
                  envVars, db, folderVars, fileVars, histVars >>

\* main: sql.connect throws; the error is logged and nothing is processed.
ConnectFails ==
  /\ pc = "idle"
  /\ loaderRuns < MaxLoaderRuns
  /\ loaderRuns' = loaderRuns + 1
  /\ UNCHANGED << confVars, pc, scraperRuns, today, scraperVars, targetVars,
                  envVars, db, loaderVars, histVars >>

\* main calls processDateFolder, which lists the JSON files of the folder.
NextFolder ==
  /\ pc = "l_folders"
  /\ folders # <<>>
  /\ dateFolder' = Head(folders)
  /\ folders' = Tail(folders)
  /\ LET d == Head(folders)
         listed == SelectSeq(SortedNames, LAMBDA c : IsJsonIn(d, c))
     IN /\ jsonFiles' = listed
        /\ folderFiles' = Len(listed)
  /\ totalSuccess' = 0
  /\ totalFailed' = 0
  /\ pc' = "l_files"
  /\ UNCHANGED << confVars, scraperRuns, loaderRuns, today, scraperVars,
                  targetVars, envVars, db, fileVars, totalFilesProcessed,
                  totalSuccessInserts, totalFailedInserts, histVars >>

\* processDateFolder returns; main adds its counts to the totals.
EndOfFolder ==
  /\ pc = "l_files"
  /\ jsonFiles = <<>>
  /\ totalFilesProcessed' = totalFilesProcessed + folderFiles
  /\ totalSuccessInserts' = totalSuccessInserts + totalSuccess
  /\ totalFailedInserts' = totalFailedInserts + totalFailed
  /\ dateFolder' = Null
  /\ folderFiles' = 0
  /\ totalSuccess' = 0
  /\ totalFailed' = 0
  /\ pc' = "l_folders"
  /\ UNCHANGED << confVars, scraperRuns, loaderRuns, today, scraperVars,
                  targetVars, envVars, db, folders, jsonFiles, fileVars,
                  histVars >>

\* A processJsonFile that throws to main when the name has no country or the
\* object no tracks array: the run ends there.
OpenFileThrows ==
  /\ pc = "l_files"
  /\ jsonFiles # <<>>
  /\ jsonFiles' = Tail(jsonFiles)
  /\ LET filename == Head(jsonFiles)
         parsed == files[filename, dateFolder]
     IN IF extractCountryFromFilename(filename) = "" \/ ~hasTracks(parsed)
          THEN /\ pc' = "l_done"
               /\ UNCHANGED << file, data, trackIdx, fileSuccess,
                               fileFailed, attemptLog >>
          ELSE /\ file' = extractCountryFromFilename(filename)
               /\ data' = parsed
               /\ trackIdx' = 1
               /\ fileSuccess' = 0
               /\ fileFailed' = 0
               /\ attemptLog' = <<>>
               /\ pc' = "l_insert"
  /\ UNCHANGED << confVars, scraperRuns, loaderRuns, today, scraperVars,
                  targetVars, envVars, db, folders, dateFolder, folderFiles,
                  totalSuccess, totalFailed, totalFilesProcessed,
                  totalSuccessInserts, totalFailedInserts, events, outcome,
                  attempted, summaries, rewrote, checkedDate >>

\* processJsonFile: the file is read and parsed.  With no country in its
\* name or no tracks array in its object it counts for {success: 0,
\* failed: 0} and stays where it is; otherwise the loop over its tracks
\* begins.
OpenFile ==
  /\ pc = "l_files"
  /\ jsonFiles # <<>>
  /\ jsonFiles' = Tail(jsonFiles)
  /\ LET filename == Head(jsonFiles)
         parsed == files[filename, dateFolder]
     IN IF extractCountryFromFilename(filename) = "" \/ ~hasTracks(parsed)
          THEN UNCHANGED << pc, file, data, trackIdx, fileSuccess,
                            fileFailed, attemptLog >>
          ELSE /\ file' = extractCountryFromFilename(filename)
               /\ data' = parsed
               /\ trackIdx' = 1
               /\ fileSuccess' = 0
               /\ fileFailed' = 0
               /\ attemptLog' = <<>>
               /\ pc' = "l_insert"
  /\ UNCHANGED << confVars, scraperRuns, loaderRuns, today, scraperVars,
                  targetVars, envVars, db, folders, dateFolder, folderFiles,
                  totalSuccess, totalFailed, totalFilesProcessed,
                  totalSuccessInserts, totalFailedInserts, events, outcome,
                  attempted, summaries, rewrote, checkedDate >>

\* A processJsonFile whose catch removes the file it could not read.
ReadFileFailsAndUnlinks ==
  /\ pc = "l_files"
  /\ jsonFiles # <<>>
  /\ jsonFiles' = Tail(jsonFiles)
  /\ files' = [files EXCEPT ![Head(jsonFiles), dateFolder] = NoFile]
  /\ UNCHANGED << confVars, pc, scraperRuns, loaderRuns, today, scraperVars,
                  targetVars, dirs, tempDir, download, strays, db, folders,
                  dateFolder, folderFiles, totalSuccess, totalFailed,
                  fileVars, totalFilesProcessed, totalSuccessInserts,
                  totalFailedInserts, histVars >>

\* processJsonFile: readFileSync or JSON.parse throws; the file counts for
\* {success: 0, failed: 0} and stays where it is.
ReadFileFails ==
  /\ pc = "l_files"
  /\ jsonFiles # <<>>
  /\ jsonFiles' = Tail(jsonFiles)
  /\ UNCHANGED << confVars, pc, scraperRuns, loaderRuns, today, scraperVars,
                  targetVars, envVars, db, folders, dateFolder, folderFiles,
                  totalSuccess, totalFailed, fileVars, totalFilesProcessed,
                  totalSuccessInserts, totalFailedInserts, histVars >>

\* What processJsonFile passes to insertTrackData for the current track.
date_ == OrElse(data.date, dateFolder)
\* A processJsonFile that passes the default whatever the file declares.
totalTracksDefault == DefaultTotalTracks
totalTracks == OrElse(data.total_tracks, DefaultTotalTracks)
track == data.tracks[trackIdx]
\* x || null.
orNull(x) == IF truthy(x) THEN x ELSE JsNull
\* insertTrackData: the inputs bound to the INSERT (run is not one of them:
\* it records the scraper run that wrote the snapshot).
inputs(d, total, tr) ==
  [date |-> d,
   total_tracks |-> total,
   rank |-> tr.rank,
   uri |-> tr.uri,
   artist_names |-> tr.artist_names,
   track_name |-> tr.track_name,
   source |-> orNull(tr.source),
   peak_rank |-> orNull(tr.peak_rank),
   previous_rank |-> orNull(tr.previous_rank),
   days_on_chart |-> orNull(tr.days_on_chart),
   streams_today |-> tr.streams]
Row == inputs(date_, totalTracks, track) @@ [run |-> data.run]

MoreTracks == trackIdx <= Len(data.tracks)

\* insertTrackData returns true: the row is in the table of the country.
InsertTrack ==
  /\ pc = "l_insert"
  /\ MoreTracks
  /\ db' = [db EXCEPT ![file] = @ \cup {[date |-> Row.date, run |-> Row.run]}]
  /\ fileSuccess' = fileSuccess + 1
  /\ attemptLog' = Append(attemptLog,
                          [rank |-> track.rank, row |-> Row, ok |-> TRUE])
  /\ trackIdx' = trackIdx + 1
  /\ UNCHANGED << confVars, pc, scraperRuns, loaderRuns, today, scraperVars,
                  targetVars, envVars, folders, folderVars, file, data,
                  fileFailed, totalFilesProcessed, totalSuccessInserts,
                  totalFailedInserts, events, outcome, attempted, summaries,
                  rewrote, checkedDate >>

\* An insertTrackData that lets the error of the query through: it ends the
\* loop over the tracks in the catch of processJsonFile, which returns
\* {success: 0, failed: 0}.
InsertTrackThrows ==
  /\ pc = "l_insert"
  /\ MoreTracks
  /\ file' = ""
  /\ data' = NoData
  /\ trackIdx' = 1
  /\ fileSuccess' = 0
  /\ fileFailed' = 0
  /\ attemptLog' = attemptLog
  /\ pc' = "l_files"
  /\ UNCHANGED << confVars, scraperRuns, loaderRuns, today, scraperVars,
                  targetVars, envVars, db, folders, folderVars,
                  totalFilesProcessed, totalSuccessInserts,
                  totalFailedInserts, events, outcome, attempted, summaries,
                  rewrote, checkedDate >>

\* insertTrackData catches the error of the query and returns false.
InsertTrackFails ==
  /\ pc = "l_insert"
  /\ MoreTracks
  /\ fileFailed' = fileFailed + 1
  /\ attemptLog' = Append(attemptLog,
                          [rank |-> track.rank, row |-> Row, ok |-> FALSE])
  /\ trackIdx' = trackIdx + 1
  /\ UNCHANGED << confVars, pc, scraperRuns, loaderRuns, today, scraperVars,
                  targetVars, envVars, db, folders, folderVars, file, data,
                  fileSuccess, totalFilesProcessed, totalSuccessInserts,
                  totalFailedInserts, events, outcome, attempted, summaries,
                  rewrote, checkedDate >>

\* processJsonFile returns its counts; processDateFolder adds them up.
ReturnCounts ==
  /\ totalSuccess' = totalSuccess + fileSuccess
  /\ totalFailed' = totalFailed + fileFailed
  /\ file' = ""
  /\ data' = NoData
  /\ trackIdx' = 1
  /\ fileSuccess' = 0
  /\ fileFailed' = 0
  /\ attemptLog' = <<>>
  /\ pc' = "l_files"

\* A processJsonFile that deletes the file only when no insert failed.
UnlinkFileIfClean ==
  /\ pc = "l_insert"
  /\ ~MoreTracks
  /\ fileFailed = 0
  /\ files' = [files EXCEPT ![file, dateFolder] = NoFile]
  /\ ReturnCounts
  /\ UNCHANGED << confVars, scraperRuns, loaderRuns, today, scraperVars,
                  targetVars, dirs, tempDir, download, strays, db, folders,
                  dateFolder, jsonFiles, folderFiles, totalFilesProcessed,
                  totalSuccessInserts, totalFailedInserts, events, outcome,
                  attempted, summaries, rewrote, checkedDate >>

\* processJsonFile: every track was tried; the file is deleted.
UnlinkFile ==
  /\ pc = "l_insert"
  /\ ~MoreTracks
  /\ files' = [files EXCEPT ![file, dateFolder] = NoFile]
  /\ ReturnCounts
  /\ UNCHANGED << confVars, scraperRuns, loaderRuns, today, scraperVars,
                  targetVars, dirs, tempDir, download, strays, db, folders,
                  dateFolder, jsonFiles, folderFiles, totalFilesProcessed,
                  totalSuccessInserts, totalFailedInserts, events, outcome,
                  attempted, summaries, rewrote, checkedDate >>

\* processJsonFile: unlinkSync throws; the error is logged, the file stays.
UnlinkFileFails ==
  /\ pc = "l_insert"
  /\ ~MoreTracks
  /\ ReturnCounts
  /\ UNCHANGED << confVars, scraperRuns, loaderRuns, today, scraperVars,
                  targetVars, envVars, db, folders, dateFolder, jsonFiles,
                  folderFiles, totalFilesProcessed, totalSuccessInserts,
                  totalFailedInserts, events, outcome, attempted, summaries,
                  rewrote, checkedDate >>

\* main: every folder is done, the final summary is logged.
LoaderDone ==
  /\ pc = "l_folders"
  /\ folders = <<>>
  /\ pc' = "l_done"
  /\ UNCHANGED << confVars, scraperRuns, loaderRuns, today, scraperVars,
                  targetVars, envVars, db, loaderVars, histVars >>

\* main: pool.close() and the end of the process.
ExitLoader ==
  /\ pc = "l_done"
  /\ pc' = "idle"
  /\ totalFilesProcessed' = 0
  /\ totalSuccessInserts' = 0
  /\ totalFailedInserts' = 0
  /\ UNCHANGED << confVars, scraperRuns, loaderRuns, today, scraperVars,
                  targetVars, envVars, db, folders, folderVars, fileVars,
                  histVars >>

LoaderNext ==
  \/ StartLoader
  \/ ConnectFails
  \/ NextFolder
  \/ EndOfFolder
  \/ OpenFile
  \/ ReadFileFails
  \/ InsertTrack
  \/ InsertTrackFails
  \/ UnlinkFile
  \/ UnlinkFileFails
  \/ LoaderDone
  \/ ExitLoader

\* The scraper and the loader, run one after the other any number of times;
\* a download completes in time or not at all, and data/temp stays clean.
Next == ScraperNext \/ LoaderNext

Spec == Init /\ [][Next]_vars

\* The runs of the scraper in which the browser and the file system may also
\* leave CSV files behind in data/temp.
NextStaging ==
  \/ ScraperNext
  \/ DownloadArrivesLate
  \/ UnlinkStagedFails

SpecStaging == Init /\ [][NextStaging]_vars

\* The snapshot file a run of the scraper writes for a country and a date.
Snapshot(c, d) ==
  LET tracks == normalizeTracks(parseCSV(Chart(c, d)))
  IN jsonFile([date |-> d, total_tracks |-> Len(tracks), tracks |-> tracks,
               run |-> 1])

\* What a date folder can hold under each name when the loader starts: a
\* snapshot file may be there or not, or hold an object with no tracks
\* array; a file of another name may hold a whole snapshot object.
FileKinds(n) ==
  IF n = OtherJson THEN {"none", "snapshot"}
                   ELSE {"none", "snapshot", "empty"}
FileOfKind(kind, n, d) ==
  CASE kind = "none" -> NoFile
    [] kind = "empty" -> EmptyObject
    [] OTHER -> Snapshot(IF n = OtherJson THEN "global" ELSE n, d)

\* The loader started on a data directory that earlier runs of the scraper
\* and the operator have filled.
InitLoader ==
  /\ variant = "ByDate"
  /\ SKIP_IF_EXISTS = FALSE
  /\ pc = "idle"
  /\ scraperRuns = MaxScraperRuns
  /\ loaderRuns = 0
  /\ today = 1
  /\ dateIndex = 1
  /\ i = 1
  /\ successCount = 0
  /\ errorCount = 0
  /\ skippedCount = 0
  /\ totalSuccessCount = 0
  /\ totalErrorCount = 0
  /\ totalSkippedCount = 0
  /\ skipAllCountries = FALSE
  /\ pageDate = Null
  /\ csvContent = <<>>
  /\ csvDate = Null
  /\ result = NoResult
  /\ returned = NoReturn
  /\ \E kinds \in [FileNames \X Dates -> {"none", "snapshot", "empty"}] :
       /\ \A k \in FileNames \X Dates : kinds[k] \in FileKinds(k[1])
       /\ files = [k \in FileNames \X Dates |->
                     FileOfKind(kinds[k], k[1], k[2])]
  /\ dirs = Dates
  /\ tempDir = {}
  /\ download = NoDownload
  /\ strays = 0
  /\ db = [c \in Countries |-> {}]
  /\ folders = <<>>
  /\ dateFolder = Null
  /\ jsonFiles = <<>>
  /\ folderFiles = 0
  /\ file = ""
  /\ data = NoData
  /\ trackIdx = 1
  /\ fileSuccess = 0
  /\ fileFailed = 0
  /\ totalSuccess = 0
  /\ totalFailed = 0
  /\ totalFilesProcessed = 0
  /\ totalSuccessInserts = 0
  /\ totalFailedInserts = 0
  /\ events = <<>>
  /\ outcome = <<>>
  /\ attempted = {}
  /\ summaries = <<>>
  /\ rewrote = FALSE
  /\ checkedDate = Null
  /\ attemptLog = <<>>

SpecLoader == InitLoader /\ [][LoaderNext]_vars

\* The runs of a scraper, every download arriving in time or never.  A run
\* is one chain of awaited steps, each of which settles (a navigation and a
\* wait for the button have timeouts, the waits are timers), so a step of a
\* run that can be taken is taken; parseCSV and normalizeTracks are loops
\* over a finite text, so the step from the parse to the write is taken.
\* Nothing makes anyone start a run.
ParseSettles == pc = "parse" /\ pc' = "write"
SpecRun ==
  Init /\ [][ScraperNext]_vars /\ WF_vars(RunSteps) /\ WF_pc(ParseSettles)

\* The symbols the payloads below are made of.
TextSymbols == {",", "\"", "\n", " ", "0", "1", "a"}
Texts(n) == UNION {[1..m -> TextSymbols] : m \in 0..n}
HeaderLines == {<<>>, <<"rank">>, <<"rank", ",", "previous_rank">>}

\* The payloads of few columns: one of the header lines, or none, followed
\* by any text of at most n symbols.
TextPayloads(n) == {h \o b : h \in HeaderLines, b \in Texts(n)}

\* The payloads of nine columns: the header line of the charts and at most
\* n data lines, whose rank, artist names, peak rank and previous rank
\* are any of the fields below.
RankFields == {<<>>, <<"0">>, <<"1">>, <<"1", "0">>, <<"a">>}
ArtistFields == {<<"a">>, << "\"", "a", ",", "b", "\"" >>}
PeakFields == {<<"1">>, <<"a">>}
PreviousFields == {<<>>, <<"0">>, <<"1">>}
DataLines ==
  {DataLine(r, a, p, q) : r \in RankFields, a \in ArtistFields,
                          p \in PeakFields, q \in PreviousFields}
RECURSIVE joined(_)
joined(ls) == IF ls = <<>> THEN <<>> ELSE <<"\n">> \o Head(ls) \o joined(Tail(ls))
ChartPayloads(n) ==
  {CsvHeader \o joined(ls) : ls \in UNION {[1..m -> DataLines] : m \in 0..n}}

Payloads(len, n) == TextPayloads(len) \cup ChartPayloads(n)

\* processCountry of the multi-date script at its call of parseCSV, the
\* download having returned any of the payloads for the first target.
InitParse ==
  /\ variant = "ByDate"
  /\ SKIP_IF_EXISTS = FALSE
  /\ pc = "parse"
  /\ scraperRuns = 1
  /\ loaderRuns = 0
  /\ today = 1
  /\ dateIndex = 1
  /\ i = 1
  /\ successCount = 0
  /\ errorCount = 0
  /\ skippedCount = 0
  /\ totalSuccessCount = 0
  /\ totalErrorCount = 0
  /\ totalSkippedCount = 0
  /\ skipAllCountries = FALSE
  /\ pageDate = Null
  /\ csvContent \in Payloads(MaxText, MaxRows)
  /\ csvDate = DATES_TO_SCRAPE[1]
  /\ result = NoResult
  /\ returned = NoReturn
  /\ files = [k \in FileNames \X Dates |-> NoFile]
  /\ dirs = {}
  /\ tempDir = {}
  /\ download = NoDownload
  /\ strays = 0
  /\ db = [c \in Countries |-> {}]
  /\ folders = <<>>
  /\ dateFolder = Null
  /\ jsonFiles = <<>>
  /\ folderFiles = 0
  /\ file = ""
  /\ data = NoData
  /\ trackIdx = 1
  /\ fileSuccess = 0
  /\ fileFailed = 0
  /\ totalSuccess = 0
  /\ totalFailed = 0
  /\ totalFilesProcessed = 0
  /\ totalSuccessInserts = 0
  /\ totalFailedInserts = 0
  /\ events = <<"fetch", "resolve">>
  /\ outcome = [j \in 1..NumTargets |-> "none"]
  /\ attempted = {1}
  /\ summaries = <<>>
  /\ rewrote = FALSE
  /\ checkedDate = Null
  /\ attemptLog = <<>>

NextParse == ParseNormalize

SpecParse == InitParse /\ [][NextParse]_vars

\* ================================================================= claims
\* The rows of table spotify_data_<c> for date d, by the scraper run whose
\* snapshot they were loaded from.
LoadsOf(c, d) == {r \in db[c] : r.date = d}

\* C1: with duplicate-avoidance enabled, each (country, date) snapshot is
\* loaded into storage exactly once: once the loader has inserted the rows of
\* a (country, date), no later scraper run followed by a loader run inserts
\* rows for that (country, date) again.  Stated for the multi-date scraper:
\* the table of a country never holds rows of one date that come from the
\* snapshots of two scraper runs.
C1_LoadedOncePerCountryAndDate ==
  (variant = "ByDate" /\ SKIP_IF_EXISTS) =>
    \A c \in Countries : \A d \in Dates : Cardinality(LoadsOf(c, d)) <= 1

\* C2: with duplicate-avoidance enabled, a target whose (country, date)
\* snapshot already exists is not parsed, normalized or persisted: no write
\* of any target replaces a snapshot file that was there.
C2_ExistingSnapshotNotRewritten == SKIP_IF_EXISTS => ~rewrote

\* The targets of the current run that ended in main's catch.
FailedTargets == {j \in DOMAIN outcome : outcome[j] = "failed"}

Ended(o) == {j \in DOMAIN outcome : outcome[j] = o}

RECURSIVE SumSuccess(_), SumSkipped(_), SumError(_)
SumSuccess(s) == IF s = <<>> THEN 0 ELSE Head(s).success + SumSuccess(Tail(s))
SumSkipped(s) == IF s = <<>> THEN 0 ELSE Head(s).skipped + SumSkipped(Tail(s))
SumError(s) == IF s = <<>> THEN 0 ELSE Head(s).error + SumError(Tail(s))

\* C4: every target of a batch is counted in exactly one of the buckets
\* succeeded, skipped, failed.  At every point of a run each bucket holds
\* the number of targets that ended that way, so the three add up to the
\* number of targets that have ended; at the end of the run that is the
\* number of targets (dates x countries for the multi-date script, whose
\* totals are the sums of the per-date summaries, each summary adding up to
\* the number of countries).
C4_EveryTargetInOneBucket ==
  pc \in ScraperPcs =>
    /\ successCount + totalSuccessCount = Cardinality(Ended("succeeded"))
    /\ skippedCount + totalSkippedCount = Cardinality(Ended("skipped"))
    /\ errorCount + totalErrorCount = Cardinality(Ended("failed"))
    /\ successCount + skippedCount + errorCount
         + totalSuccessCount + totalSkippedCount + totalErrorCount
       = Cardinality({j \in DOMAIN outcome : outcome[j] # "none"})
    /\ totalSuccessCount = SumSuccess(summaries)
    /\ totalSkippedCount = SumSkipped(summaries)
    /\ totalErrorCount = SumError(summaries)
    /\ \A k \in DOMAIN summaries :
         summaries[k].success + summaries[k].skipped + summaries[k].error
           = Len(countries)
    /\ pc = "done" =>
         /\ successCount + skippedCount + errorCount
              + totalSuccessCount + totalSkippedCount + totalErrorCount
            = NumTargets
         /\ variant = "ByDate" =>
              /\ Len(summaries) = Len(DATES_TO_SCRAPE)
              /\ totalSuccessCount + totalSkippedCount + totalErrorCount
                 = Len(DATES_TO_SCRAPE) * Len(countries)

\* C4 witness: a finished run of the multi-date script with a target in
\* each of the three buckets.
C4_AllThreeBuckets ==
  /\ pc = "done"
  /\ variant = "ByDate"
  /\ totalSuccessCount >= 1
  /\ totalSkippedCount >= 1
  /\ totalErrorCount >= 1
  /\ Len(summaries) = 2

\* processCountry has done e for the current target.
Did(e) == \E k \in DOMAIN events : events[k] = e

\* The scripts that are given a concrete date for each target.
HasRequestedDate == variant \in {"ByDate", "ByDateOne", "Single"}

\* C5: the date a snapshot is persisted under is the claimed date when one
\* was extracted and the requested date otherwise.  For the scripts that
\* request a concrete date: the snapshot about to be written carries the
\* date of the CSV if there is one and the requested date if not, and date
\* resolution never makes the target fail.
C5_PersistedUnderClaimedElseRequested ==
  HasRequestedDate =>
    /\ pc = "write" =>
         result.date = (IF csvDate # Null THEN csvDate ELSE date)
    /\ ~(pc = "catch" /\ Did("resolve"))

\* C6: when the requested date and the claimed date are both there and
\* differ, a warning is emitted and the target goes on; when they are equal
\* there is no warning.  In the multi-date script, once the date is
\* resolved the warning is there exactly when the two dates differ, and a
\* target fails in date resolution only when the CSV carries no date.
C6_MismatchWarnsAndProceeds ==
  variant = "ByDate" =>
    /\ (pc \in {"check", "parse", "write", "count"} /\ Did("resolve")) =>
         (Did("warn") <=> csvDate # date)
    /\ (pc = "catch" /\ Did("resolve")) => csvDate = Null

\* C6 witness: a target whose CSV carries another date than the requested
\* one, warned about and written.
C6_MismatchWritten ==
  /\ variant = "ByDate"
  /\ pc = "count"
  /\ csvDate # Null
  /\ csvDate # date
  /\ Did("warn")
  /\ Did("write")
  /\ ~returned.skipped

\* C7: a request for the latest snapshot with no extractable claimed date
\* is a failed target, and no snapshot is persisted under a date that was
\* not resolved from the claimed date or a concrete requested date.
C7_NeverPersistedUnderUnresolvedDate ==
  pc \in {"parse", "write"} =>
    /\ date = LATEST => csvDate # Null
    /\ pc = "write" =>
         \/ csvDate # Null /\ result.date = csvDate
         \/ date # LATEST /\ result.date = date

\* The first position of e in what processCountry has done (0: not there).
FirstPos(e) ==
  IF Did(e) THEN CHOOSE k \in DOMAIN events :
                   events[k] = e /\ \A m \in 1..(k - 1) : events[m] # e
            ELSE 0

\* C8: for every target the date is resolved before the ledger is
\* consulted, and the ledger is consulted with the resolved date: when the
\* existence check has been made, the fetch and the date resolution came
\* before it, in that order, the check was made with the date of the CSV,
\* and the parse, if any, came after it.
C8_ResolvedBeforeLedger ==
  Did("check") =>
    /\ Did("fetch")
    /\ Did("resolve")
    /\ FirstPos("fetch") < FirstPos("resolve")
    /\ FirstPos("resolve") < FirstPos("check")
    /\ checkedDate = csvDate
    /\ Did("parse") => FirstPos("check") < FirstPos("parse")

\* C9: with duplicate-avoidance disabled the existence check is never made
\* and every target whose fetch and date resolution succeed is written
\* again, whether or not its snapshot exists: no target is checked or ends
\* as skipped, and every target that returns to main has written its file.
C9_DisabledNeverChecksAlwaysWrites ==
  ~SKIP_IF_EXISTS =>
    /\ ~Did("check")
    /\ checkedDate = Null
    /\ ~returned.skipped
    /\ ~skipAllCountries
    /\ \A j \in DOMAIN outcome : outcome[j] # "skipped"
    /\ pc = "count" => Did("write")
    /\ pc = "catch" => ~Did("parse")

\* C9 witness: with the flag off, a script that has the flag writes a
\* snapshot over the one that was there.
C9_RewrittenWhenDisabled ==
  /\ HasSkipFlag(variant)
  /\ ~SKIP_IF_EXISTS
  /\ pc = "count"
  /\ rewrote
  /\ Did("write")

\* The positions of attemptLog with the given result.
Attempts(ok) == {k \in DOMAIN attemptLog : attemptLog[k].ok = ok}

\* C10: loading a snapshot attempts the insert of every item exactly once,
\* in order, whatever the outcome of earlier inserts.  While a file is being
\* loaded the attempts made are the first items of the snapshot, in order,
\* the two counters are the numbers of attempts that succeeded and that
\* failed; and the file is left only when every item was attempted, with
\* these two counts added to the totals of the folder.
C10_EveryItemAttemptedOnce ==
  /\ [](pc = "l_insert" =>
         /\ Len(attemptLog) = trackIdx - 1
         /\ Len(attemptLog) <= Len(data.tracks)
         /\ \A k \in DOMAIN attemptLog :
              attemptLog[k].rank = data.tracks[k].rank
         /\ fileSuccess = Cardinality(Attempts(TRUE))
         /\ fileFailed = Cardinality(Attempts(FALSE))
         /\ fileSuccess + fileFailed = Len(attemptLog))
  /\ [][(pc = "l_insert" /\ pc' # "l_insert") =>
         /\ Len(attemptLog) = Len(data.tracks)
         /\ totalSuccess' = totalSuccess + fileSuccess
         /\ totalFailed' = totalFailed + fileFailed]_vars

\* C10 witness: an insert that failed, followed by the attempt of the next
\* item of the same snapshot.
C10_AttemptAfterFailure ==
  /\ pc = "l_insert"
  /\ Len(data.tracks) = 2
  /\ Len(attemptLog) = 2
  /\ ~attemptLog[1].ok
  /\ attemptLog[2].ok
  /\ fileSuccess = 1
  /\ fileFailed = 1

\* C11: after all items of a snapshot file have been attempted the loader
\* attempts to delete the file, whether zero, some or all inserts failed.
\* Once every item was attempted the deletion of the file is the step that
\* can be taken, whatever the count of failures, and the only steps taken
\* are the deletion and the deletion that fails; and the file is never
\* deleted before every item was attempted.
C11_DeletionAttemptedWhateverFailed ==
  /\ []((pc = "l_insert" /\ ~MoreTracks) => ENABLED UnlinkFile)
  /\ [][(pc = "l_insert" /\ ~MoreTracks) =>
         /\ pc' = "l_files"
         /\ \/ files' = [files EXCEPT ![file, dateFolder] = NoFile]
            \/ files' = files]_vars
  /\ [][(pc \in LoaderPcs /\ files' # files) =>
         /\ pc = "l_insert"
         /\ ~MoreTracks
         /\ files' = [files EXCEPT ![file, dateFolder] = NoFile]]_vars

\* C11 witness: a folder whose files were all processed with every insert
\* failed, and none of whose files is left.
C11_DeletedAfterOnlyFailures ==
  /\ pc = "l_files"
  /\ jsonFiles = <<>>
  /\ folderFiles >= 1
  /\ totalSuccess = 0
  /\ totalFailed >= 1
  /\ \A c \in Countries : files[c, dateFolder] = NoFile

\* ---------------------------------------------------------------- C12
\* A field that is written as a decimal integer.
IsInteger(f) == f # <<>> /\ \A k \in DOMAIN f : IsDigit(f[k])

\* The columns of a payload, and its rows that pass the validation of the
\* required numeric fields.
Columns(csv) == {csvHeaders(csv)[k] : k \in DOMAIN csvHeaders(csv)}
RequiredNumeric == {"rank", "peak_rank", "days_on_chart", "streams"}
ValidRow(row) == \A n \in RequiredNumeric : IsInteger(row[n])

\* C12: a data row whose rank, peak_rank, days_on_chart or streams is empty
\* or non-numeric is excluded from the items of the snapshot and the other
\* rows are kept: the items are the normalized rows that pass the validation,
\* so one row with a non-numeric rank makes the item count one less than the
\* number of data rows.
C12_MalformedRowExcluded ==
  (pc = "write" /\ RequiredNumeric \subseteq Columns(csvContent)) =>
    result.tracks = normalizeTracks(SelectSeq(parseCSV(csvContent), ValidRow))

\* ---------------------------------------------------------------- C13
\* The commas of a line that are outside quotes: those with an even number
\* of quote characters before them.  The fields of the line are the pieces
\* between them.
QuotesBefore(line, k) == Cardinality({j \in 1..(k - 1) : line[j] = "\""})
OutsideCommas(line) ==
  {k \in DOMAIN line : line[k] = "," /\ QuotesBefore(line, k) % 2 = 0}
NumFields(line) == Cardinality(OutsideCommas(line)) + 1
Field(line, j) ==
  LET ends == OutsideCommas(line) \cup {0, Len(line) + 1}
      nth(n) == CHOOSE k \in ends : Cardinality({x \in ends : x < k}) = n
  IN SubSeq(line, nth(j - 1) + 1, nth(j) - 1)

\* The lines of a payload as written, a final line feed closing the last.
WrittenLines(csv) ==
  IF csv # <<>> /\ csv[Len(csv)] = "\n"
    THEN split(SubSeq(csv, 1, Len(csv) - 1), "\n")
    ELSE split(csv, "\n")

\* The column of the header line that has a name.
ColumnOf(csv, name) ==
  CHOOSE j \in 1..NumFields(WrittenLines(csv)[1]) :
    Field(WrittenLines(csv)[1], j) = <<name>>
RankColumn(csv) == ColumnOf(csv, "rank")

\* A well-formed payload: a header line of distinct names, one of them
\* rank, followed by data lines that have one field per name, balanced
\* quotes, integers in the required numeric fields and an integer or
\* nothing in previous_rank.
WellFormed(csv) ==
  LET ls == WrittenLines(csv)
      header == ls[1]
      n == NumFields(header)
  IN /\ \A j \in 1..n :
          /\ Len(Field(header, j)) = 1
          /\ Field(header, j)[1] \notin {",", "\"", "\n", " "}
     /\ \A j, k \in 1..n : Field(header, j) = Field(header, k) => j = k
     /\ \E j \in 1..n : Field(header, j) = <<"rank">>
     /\ \A m \in 2..Len(ls) :
          /\ NumFields(ls[m]) = n
          /\ QuotesBefore(ls[m], Len(ls[m]) + 1) % 2 = 0
          /\ \A j \in 1..n :
               /\ Field(header, j)[1] \in RequiredNumeric
                    => IsInteger(Field(ls[m], j))
               /\ Field(header, j)[1] = "previous_rank"
                    => Field(ls[m], j) = <<>> \/ IsInteger(Field(ls[m], j))

\* C13: for a well-formed payload, parsing and then normalizing gives one
\* item per data line, in the order of the lines, and the rank of the i-th
\* item is the integer written in the rank field of the i-th data line.
C13_WellFormedParsesRowForRow ==
  (pc = "write" /\ WellFormed(csvContent)) =>
    LET ls == WrittenLines(csvContent)
    IN /\ Len(result.tracks) = Len(ls) - 1
       /\ result.total_tracks = Len(ls) - 1
       /\ \A m \in 1..(Len(ls) - 1) :
            result.tracks[m].rank =
              Num(decimal(Field(ls[m + 1], RankColumn(csvContent))))

\* A well-formed payload of the nine columns with two data lines, of ranks
\* 10 and 1, one of them with a comma inside the quoted artist names.
C13_TwoLinesParsed ==
  /\ pc = "write"
  /\ WellFormed(csvContent)
  /\ Columns(csvContent) = {CsvHeader[2 * k - 1] : k \in 1..9}
  /\ Len(WrittenLines(csvContent)) = 3
  /\ NumFields(WrittenLines(csvContent)[2]) = 9
  /\ \E k \in DOMAIN csvContent : csvContent[k] = "\""
  /\ result.tracks[1].rank = Num(10)
  /\ result.tracks[2].rank = Num(1)

\* ---------------------------------------------------------------- C14
\* A field without its quote characters.
Unquoted(f) == SelectSeq(f, LAMBDA ch : ch # "\"")

\* The field "a,b" as it is written, quotes included.
QuotedAB == << "\"", "a", ",", "b", "\"" >>

\* C14: in a data line a comma inside quotes does not end the field: the
\* values parsed from a line are one more than its commas outside quotes, no
\* value holds a quote character, each value is the field without its quotes,
\* and the item of a line of the nine columns has the artist names of the
\* third field, so that "a,b" is stored as the single value a,b.
C14_QuotedCommaKeepsField ==
  pc = "write" =>
    LET lines == csvLinesOf(csvContent)
    IN \A m \in 2..Len(lines) :
         LET values == lineValues(lines[m])
         IN /\ Len(values) = NumFields(lines[m])
            /\ \A j \in DOMAIN values :
                 /\ \A k \in DOMAIN values[j] : values[j][k] # "\""
                 /\ values[j] = trim(Unquoted(Field(lines[m], j)))
            /\ (Columns(csvContent) = {CsvHeader[2 * k - 1] : k \in 1..9}
                  /\ NumFields(lines[m]) = 9)
                 => result.tracks[m - 1].artist_names =
                      Str(Unquoted(Field(lines[m],
                                         ColumnOf(csvContent, "artist_names"))))

\* A data line of nine fields whose artist names are written "a,b" has been
\* parsed into an item whose artist names are a,b.
C14_QuotedABParsed ==
  /\ pc = "write"
  /\ Len(result.tracks) >= 1
  /\ Len(csvLinesOf(csvContent)) >= 2
  /\ NumFields(csvLinesOf(csvContent)[2]) = 9
  /\ Field(csvLinesOf(csvContent)[2], 3) = QuotedAB
  /\ Len(lineValues(csvLinesOf(csvContent)[2])) = 9
  /\ result.tracks[1].artist_names = Str(<< "a", ",", "b" >>)

\* ---------------------------------------------------------------- C15
\* C15: the pause between targets follows a target if and only if the target
\* was processed successfully and is not the last of the batch: a target
\* that was written is followed by the pause exactly when another target
\* comes after it, and no pause follows a target that was not written.
C15_PacedIffSuccessfulAndNotLast ==
  /\ (pc = "count" /\ Did("write")) => (Did("pace") <=> Cur # NumTargets)
  /\ Did("pace") => Did("write")

\* ---------------------------------------------------------------- C16
\* The targets whose processCountry has been called and that main has not
\* counted yet, and the positions of downloadCSV.
InFlight == {j \in attempted : outcome[j] = "none"}
FetchPcs == {"goto", "click", "wait"}

\* C16: the targets of a run are processed one after the other: at most one
\* target is between the call of its processCountry and its count, a target
\* is begun only when every target before it has been counted as succeeded,
\* skipped or failed, and the fetch that runs, the only one to use the
\* staging directory, is the fetch of the one target in flight.
C16_OneTargetInFlight ==
  /\ Cardinality(InFlight) <= 1
  /\ \A j \in attempted : \A k \in 1..(j - 1) :
       outcome[k] \in {"succeeded", "skipped", "failed"}
  /\ pc \in FetchPcs => InFlight = {Cur}

\* The second target is in its fetch, its file staged, after the first
\* target was counted as an error.
C16_SecondFetchAfterCount ==
  /\ pc = "wait"
  /\ Cur = 2
  /\ outcome[1] = "failed"
  /\ InFlight = {2}
  /\ \E f \in tempDir : f.target = 2

\* ---------------------------------------------------------------- C17
\* The targets of the run with an outcome.
Outcomes(o) == {j \in 1..NumTargets : outcome[j] = o}

\* The run is at its final summary, every target has an outcome and the
\* counts logged are the numbers of targets of each outcome.
Completed ==
  /\ pc = "done"
  /\ \A j \in 1..NumTargets : outcome[j] \in {"succeeded", "skipped", "failed"}
  /\ finalSummary.succeeded = Cardinality(Outcomes("succeeded"))
  /\ finalSummary.failed = Cardinality(Outcomes("failed"))
  /\ IF "skipped" \in DOMAIN finalSummary
       THEN finalSummary.skipped = Cardinality(Outcomes("skipped"))
       ELSE Outcomes("skipped") = {}

C18_PreviousRankKeptToInsert ==
  /\ (pc = "write" /\ "previous_rank" \in Columns(csvContent)) =>
       \A k \in DOMAIN result.tracks :
         LET field == parseCSV(csvContent)[k]["previous_rank"]
         IN /\ field = <<>> => result.tracks[k].previous_rank = JsNull
            /\ IsInteger(field) =>
                 result.tracks[k].previous_rank = Num(decimal(field))
  /\ pc = "l_insert" =>
       \A k \in DOMAIN attemptLog :
         attemptLog[k].row.previous_rank = data.tracks[k].previous_rank

\* ---------------------------------------------------------------- C19
\* Whether one event of the current target came before another.
Before(a, b) == Did(a) /\ Did(b) /\ FirstPos(a) < FirstPos(b)

\* C19: a target goes Requested, Fetched, DateResolved and then either
\* SkippedDuplicate or Parsed, Normalized, Loaded: it is parsed only after
\* its fetch, normalized after the parse and written after that; it is
\* skipped only from DateResolved, after its fetch and the resolution of its
\* date, never before a fetch and never after the parse; and a target that
\* ended as skipped had been requested.
C19_SkippedOnlyFromDateResolved ==
  /\ Did("parse") => Before("fetch", "parse")
  /\ Did("normalize") => Before("parse", "normalize")
  /\ Did("write") => Before("normalize", "write")
  /\ (pc = "count" /\ returned.skipped) =>
       /\ Before("fetch", "resolve")
       /\ Before("resolve", "check")
       /\ ~Did("parse")
  /\ \A j \in DOMAIN outcome : outcome[j] = "skipped" => j \in attempted

\* ---------------------------------------------------------------- C20
\* C20: a target is counted as skipped only when its own existence check
\* found a snapshot of its country and date: the target that is about to be
\* counted as skipped has been checked and the snapshot checked for exists,
\* and every target that was counted as skipped had its processCountry,
\* where the check is made, called.
C20_SkippedOnlyByOwnCheck ==
  /\ (pc = "count" /\ returned.skipped) =>
       /\ Did("check")
       /\ checkedDate # Null
       /\ checkIfDateExists(country, checkedDate)
  /\ \A j \in DOMAIN outcome : outcome[j] = "skipped" => j \in attempted

\* ---------------------------------------------------------------- C21
\* C21: the snapshot of a country and date is created only by a target that
\* completes successfully: a target that failed or was skipped has written
\* none, the target about to be counted as succeeded has its snapshot in
\* place, and with duplicate-avoidance enabled the write never replaced a
\* snapshot that was there already.
C21_RecordCreatedOnSuccessNeverUpdated ==
  /\ (pc = "catch" \/ (pc = "count" /\ returned.skipped)) => ~Did("write")
  /\ (pc = "count" /\ Did("write")) =>
       files[country, result.date] = jsonFile(result)
  /\ (SKIP_IF_EXISTS /\ Did("write")) => ~rewrote

\* ---------------------------------------------------------------- C22
\* C22: the CSV staged for a request is discarded once it has been read or
\* the request has failed: no file in the staging directory was downloaded
\* for a target of the run that has been counted as succeeded, skipped or
\* failed.
C22_NoStagedFileOfEndedTarget ==
  \A f \in tempDir :
    f.target \in DOMAIN outcome => outcome[f.target] = "none"

\* ---------------------------------------------------------------- C23
\* The fetches the current target has started.
Fetches == {k \in DOMAIN events : events[k] = "fetch"}

\* C23: nothing is retried: the fetch of a target is started at most once,
\* the target being fetched has no outcome yet, and main calls processCountry
\* only for a target it has not called it for before in the run, so a target
\* that failed is not attempted again.
C23_NothingRetried ==
  /\ [](Cardinality(Fetches) <= 1)
  /\ [](pc \in FetchPcs => outcome[Cur] = "none")
  /\ [][(pc = "loop" /\ pc' # "loop" /\ pc' # "done") =>
         /\ Cur \notin attempted
         /\ outcome[Cur] = "none"
         /\ attempted' = attempted \cup {Cur}]_vars

\* The third target of the script of explicit targets has been fetched, once,
\* after the first two failed and were left behind.
C23_ThirdFetchedAfterTwoFailures ==
  /\ variant = "Single"
  /\ pc = "parse"
  /\ Cur = 3
  /\ outcome[1] = "failed"
  /\ outcome[2] = "failed"
  /\ attempted = {1, 2, 3}
  /\ Cardinality(Fetches) = 1

\* ---------------------------------------------------------------- C24
\* C24: a failure to remove a temporary file is not fatal.  In the loader,
\* a processJsonFile that ends with its file still in place returns its two
\* counts as they stand; in the fetch, a downloadCSV that ends with the file
\* it read still staged does not throw, so its target is not headed for the
\* catch of main.
C24_UnlinkFailureNotFatal ==
  /\ [][(pc = "l_insert" /\ ~MoreTracks /\ files' = files) =>
         /\ pc' = "l_files"
         /\ totalSuccess' = totalSuccess + fileSuccess
         /\ totalFailed' = totalFailed + fileFailed]_vars
  /\ [][(pc = "wait" /\ pc' # "wait" /\ tempDir # {} /\ tempDir' = tempDir) =>
         pc' # "catch"]_vars

\* ---------------------------------------------------------------- C25
\* The file processJsonFile is called for has no country in its name or no
\* tracks array in its object.
Unusable ==
  \/ extractCountryFromFilename(Head(jsonFiles)) = ""
  \/ ~hasTracks(files[Head(jsonFiles), dateFolder])

\* C25: a failure of one snapshot file does not escalate.  A file that
\* cannot be read or parsed, or has no country in its name or no tracks
\* array, adds nothing to the two counts of its folder and inserts nothing,
\* the loader goes on with the files that follow it and the folders still
\* listed, and a folder or the run ends only with nothing left to process.
C25_FileFailureNotEscalated ==
  /\ [][(pc = "l_files" /\ jsonFiles # <<>> /\ (Unusable \/ pc' # "l_insert"))
          => /\ pc' = "l_files"
             /\ jsonFiles' = Tail(jsonFiles)
             /\ folders' = folders
             /\ dateFolder' = dateFolder
             /\ totalSuccess' = totalSuccess
             /\ totalFailed' = totalFailed
             /\ db' = db]_vars
  /\ [](pc \in {"l_folders", "l_done"} => jsonFiles = <<>>)
  /\ [](pc = "l_done" => folders = <<>>)

\* The loader inserts the tracks of the snapshot of global in the second
\* folder after it left behind a file without tracks array in the first
\* folder and a file without country in its name in the second.
C25_InsertAfterUnusableFiles ==
  /\ loaderRuns = 1
  /\ pc = "l_insert"
  /\ dateFolder = 2
  /\ file = "global"
  /\ fileSuccess = 1
  /\ files["ar", 1] = EmptyObject
  /\ files[OtherJson, 2] # NoFile
  /\ totalSuccess = 0
  /\ totalFailed = 0

\* ---------------------------------------------------------------- C26
\* C26: the declared total equals the number of items.  The snapshot object
\* processCountry builds, and every snapshot file on disk, has total_tracks
\* equal to the length of its tracks, and every row the loader binds for an
\* insert carries as total_tracks the number of tracks of its file.
C26_DeclaredTotalIsItemCount ==
  /\ result.total_tracks = Len(result.tracks)
  /\ \A k \in Countries \X Dates :
       files[k].total_tracks = Len(files[k].tracks)
  /\ pc = "l_insert" =>
       \A k \in DOMAIN attemptLog :
         attemptLog[k].row.total_tracks = Len(data.tracks)

\* The loader has bound the rows of both tracks of a snapshot that declares
\* two.
C26_TwoRowsOfTwo ==
  /\ pc = "l_insert"
  /\ data.total_tracks = 2
  /\ Len(data.tracks) = 2
  /\ Len(attemptLog) = 2
  /\ attemptLog[2].row.total_tracks = 2

\* ---------------------------------------------------------------- C27
\* C27: a data line with fewer fields than the header line has names does
\* not fail the parse: the line gives an item like any other, its row has
\* exactly the header names as keys, the fields it has are the values of the
\* leading names in order, and the trailing names it has no field for map to
\* the empty string (a name written twice takes its last column).
C27_ShortLineFilledWithEmpty ==
  pc = "write" =>
    LET lines == csvLinesOf(csvContent)
        headers == csvHeaders(csvContent)
        rows == parseCSV(csvContent)
    IN /\ Len(rows) = Len(lines) - 1
       /\ Len(result.tracks) = Len(lines) - 1
       /\ \A m \in 2..Len(lines) :
            NumFields(lines[m]) < Len(headers) =>
              /\ DOMAIN rows[m - 1] = {headers[j] : j \in DOMAIN headers}
              /\ \A j \in DOMAIN headers :
                   (\A n \in (j + 1)..Len(headers) : headers[n] # headers[j])
                     => rows[m - 1][headers[j]] =
                          IF j <= NumFields(lines[m])
                            THEN trim(Unquoted(Field(lines[m], j)))
                            ELSE <<>>

\* The payload rank,previous_rank with the data line 1, which has no second
\* field, has been parsed into one item of rank 1 without previous rank.
C27_OneFieldOfTwo ==
  /\ pc = "write"
  /\ csvContent = <<"rank", ",", "previous_rank", "\n", "1">>
  /\ parseCSV(csvContent) =
       << [h \in {"rank", "previous_rank"} |->
             IF h = "rank" THEN <<"1">> ELSE <<>>] >>
  /\ Len(result.tracks) = 1
  /\ result.tracks[1].rank = Num(1)
  /\ result.tracks[1].previous_rank = JsNull

\* ---------------------------------------------------------------- C28
\* C28: a payload that is empty once trimmed is parsed, without an error,
\* into no row at all, and the snapshot object built from it has no item;
\* the header line is then the empty line, which split(',') turns into one
\* header, the empty name.
C28_EmptyPayloadNoRows ==
  (pc = "write" /\ trim(csvContent) = <<>>) =>
    /\ parseCSV(csvContent) = <<>>
    /\ result.tracks = <<>>
    /\ result.total_tracks = 0
    /\ csvHeaders(csvContent) = <<"">>

\* A payload of a space and a line feed has been parsed and the snapshot
\* object has no item.
C28_BlankPayloadParsed ==
  /\ pc = "write"
  /\ csvContent = <<" ", "\n">>
  /\ result.tracks = <<>>
  /\ Did("parse")

\* C28 as the specification states it: a payload that is empty once trimmed
\* yields no row and an empty set of headers.
C28_EmptyPayloadNoRowsNoHeaders ==
  (pc = "write" /\ trim(csvContent) = <<>>) =>
    /\ parseCSV(csvContent) = <<>>
    /\ result.tracks = <<>>
    /\ Columns(csvContent) = {}

\* ---------------------------------------------------------------- C29
\* C29: the payload a fetch returns is the file downloaded for the same
\* target: the staged file downloadCSV reads, returns the content of and
\* takes the date from was downloaded for the current target, never left in
\* data/temp by an earlier one.
C29_PayloadOfSameTarget ==
  [][(pc = "wait" /\ pc' = AfterDownload) =>
       \E f \in tempDir :
         /\ f.target = Cur
         /\ tempDir' = tempDir \ {f}
         /\ csvContent' = f.content
         /\ csvDate' = csvDateOf(f)]_vars

\* ---------------------------------------------------------------- C30
\* C30: the loader deletes a snapshot file only after every one of its
\* items was attempted, and then that file alone.  When the connection to
\* the database fails, and when a file cannot be read or parsed, has no
\* country in its name or no tracks array, every file stays in place, no
\* insert is attempted and nothing is added to the counts.
C30_FileKeptUnlessEveryItemAttempted ==
  /\ [][files' # files =>
         /\ pc = "l_insert"
         /\ Len(attemptLog) = Len(data.tracks)
         /\ files[file, dateFolder] = data
         /\ files' = [files EXCEPT ![file, dateFolder] = NoFile]]_vars
  /\ [][(pc = "idle" /\ loaderRuns' # loaderRuns /\ pc' = "idle") =>
         /\ files' = files
         /\ db' = db
         /\ attemptLog' = <<>>
         /\ totalSuccessInserts' = 0
         /\ totalFailedInserts' = 0]_vars
  /\ [][(pc = "l_files" /\ jsonFiles # <<>> /\ (Unusable \/ pc' # "l_insert"))
          => /\ files' = files
             /\ db' = db
             /\ attemptLog' = attemptLog
             /\ totalSuccess' = totalSuccess
             /\ totalFailed' = totalFailed]_vars

\* A run of the loader has ended on a first folder of three files: the file
\* without country in its name and the file without tracks array are still
\* there, and the snapshot of global is gone after its two inserts.
C30_OnlyProcessedFileDeleted ==
  /\ loaderRuns = 1
  /\ pc = "l_done"
  /\ files[OtherJson, 1] # NoFile
  /\ files["ar", 1] = EmptyObject
  /\ files["global", 1] = NoFile
  /\ db["global"] = {[date |-> 1, run |-> 1]}
  /\ totalFilesProcessed = 3
  /\ totalSuccessInserts = 2
  /\ totalFailedInserts = 0
====
